---- MODULE Spec2Model ----
(***************************************************************************)
(* Model of the AR piano teaching machine (src/piano.py): the touch-lift   *)
(* detector (ARPiano.update_camera), the note trigger and score engine     *)
(* (ARPiano.trigger_note_by_name, addScore), the tile scheduler            *)
(* (onPlayMusicClicked, spawn*Tiles) and the tile collision engine         *)
(* (TileOverlay.spawnTile/update_tiles, FallingTile.update_position).      *)
(***************************************************************************)
EXTENDS Integers, Sequences, FiniteSets, TLC

\* ------------------------------------------------------------------ bounds
\* the screen's available geometry (pixels), from which the keys are laid out
ScreenW == 150
ScreenH == 18
\* the clock stops advancing here (ms since start)
MaxTime == 1101
\* entries of a melody that are scheduled
MelodyLen == 2
\* clicks of "Play Selected Music"
MaxPlays == 1
\* clicks of "Play Selected Music" when only the tile machinery runs
MaxReplays == 2

\* ------------------------------------------------------- program constants
MaxNumHands == 2
FallSpeed == 4
OffsetStep == 20

tile_score_window_ms == 300

ScorePoints == 10

\* wall-clock advances sampled between two handlers (ms)
ClockSteps == {300, 301, 800}

\* ---------------------------------------------------------------- helpers
RECURSIVE SeqSum(_)
SeqSum(s) == IF s = <<>> THEN 0 ELSE Head(s) + SeqSum(Tail(s))

Range(s) == {s[i] : i \in 1..Len(s)}

Prefix(s, n) == SubSeq(s, 1, IF n < Len(s) THEN n ELSE Len(s))

\* ------------------------------------------------------------- key layout
white_keys ==
  <<"c4", "d4", "e4", "f4", "g4", "a4", "b4",
    "c5", "d5", "e5", "f5", "g5", "a5", "b5">>

black_keys ==
  <<"c40", "d40", "f40", "g40", "a40", "c50", "d50", "f50", "g50", "a50">>

\* offsets[i] = white_key_w * (BlackSlot[i] + 0.7)
BlackSlot == <<0, 1, 3, 4, 5, 7, 8, 10, 11, 12>>

\* keys_info in creation order: create_white_keys() then create_black_keys()
keys_info == white_keys \o black_keys

Notes == Range(keys_info)

IndexOf(s, x) == CHOOSE i \in 1..Len(s) : s[i] = x

\* QRect(int(x), int(y_pos), int(key_w), int(key_h)) of a white key
WhiteRect(i) ==
  [x |-> (ScreenW * (2 * (i - 1) + 1)) \div 30,
   y |-> (7 * ScreenH) \div 15,
   w |-> ScreenW \div 15,
   h |-> ScreenH \div 3]

\* QRect(int(x), int(y_white_pos), int(black_key_w), int(black_key_h))
BlackRect(i) ==
  [x |-> (ScreenW * (5 * BlackSlot[i] + 6)) \div 75,
   y |-> (7 * ScreenH) \div 15,
   w |-> ScreenW \div 30,
   h |-> (2 * ScreenH) \div 9]

\* the geometry every key button is given, by note name
KeyRects ==
  [nm \in Notes |->
     IF nm \in Range(white_keys)
       THEN WhiteRect(IndexOf(white_keys, nm))
       ELSE BlackRect(IndexOf(black_keys, nm))]

\* btn.geometry() of the key named nm
KeyRect(nm) == KeyRects[nm]

\* r.left() <= tip_x <= r.right() and r.top() <= tip_y <= r.bottom()
InRect(r, px, py) ==
  /\ r.x <= px /\ px <= r.x + r.w - 1
  /\ r.y <= py /\ py <= r.y + r.h - 1

\* ------------------------------------------------------------------ state
VARIABLES
  auto_play_muted,                    \* ARPiano.auto_play_muted
  teach_text,                         \* text of ARPiano.teachButton
  is_held,                            \* ARPiano.is_held
  score,                              \* ARPiano.score
  last_tile_collision_time_for_note,  \* dict note -> ms (partial function)
  tiles,                              \* TileOverlay.tiles
  timers,                             \* pending QTimer.singleShot callbacks
  now,                                \* int(time.time() * 1000), relative
  plays,                              \* number of Play clicks so far
  op,                                 \* the handler that ran last, its inputs
  calls,                              \* trigger_note_by_name calls of op
  finished,                           \* tiles that finished during op
  frame_touched,                      \* touched_now of the last processed frame
  run_note_ons,                       \* note-ons of update_camera in the current run
  gained,                             \* points won per note since its pending record was opened
  spawned                             \* FallingTile objects created so far

progVars ==
  <<auto_play_muted, teach_text, is_held, score,
    last_tile_collision_time_for_note, tiles, timers, now, plays>>

histVars == <<op, calls, finished, frame_touched, run_note_ons, gained, spawned>>

vars == <<progVars, histVars>>

\* --------------------------------------------------- note trigger service
\* variant of the assignment that keeps a value already stored
DictSet_KeepFirst(d, k, v) ==
  IF k \in DOMAIN d THEN d
  ELSE [x \in DOMAIN d \cup {k} |-> IF x = k THEN v ELSE d[x]]

\* dict operations on last_tile_collision_time_for_note
DictSet(d, k, v) == [x \in DOMAIN d \cup {k} |-> IF x = k THEN v ELSE d[x]]

DictDel(d, k) == [x \in DOMAIN d \ {k} |-> d[x]]

\* Python's None, where a time in ms (never negative) is expected
None == -1

\* variant that reads a missing record as a collision at the clock's start
DictGet_Zero(d, k) == IF k \in DOMAIN d THEN d[k] ELSE 0

\* last_tile_collision_time_for_note.get(note_name, None)
DictGet(d, k) == IF k \in DOMAIN d THEN d[k] ELSE None

\* variant with a strict comparison
InWindow_Strict(current_ms, collision_time) ==
  current_ms - collision_time < tile_score_window_ms

\* current_ms - collision_time <= self.tile_score_window_ms
InWindow(current_ms, collision_time) ==
  current_ms - collision_time <= tile_score_window_ms

\* variant that adds the points twice
addScore_Double(sc, points) == sc + 2 * points

\* addScore(points)
addScore(sc, points) == sc + points

\* variant that grades user triggers while tiles sound their own notes
ScoreGate_Inverted(from_tile, muted) == (~from_tile) /\ ~muted

\* variant that grades user triggers in both modes
ScoreGate_AnyMode(from_tile, muted) == ~from_tile

\* if (not from_tile) and self.auto_play_muted
ScoreGate(from_tile, muted) == (~from_tile) /\ muted

\* variant that never deletes the record
ConsumeRecord_Keep(recs, note_name, hit) == recs

\* variant that deletes the record only when the trigger scored
ConsumeRecord_OnHitOnly(recs, note_name, hit) ==
  IF hit THEN [x \in DOMAIN recs \ {note_name} |-> recs[x]] ELSE recs

\* the records after a graded trigger: del last_tile_collision_time_for_note[note_name]
ConsumeRecord(recs, note_name, hit) == DictDel(recs, note_name)

\* variant that returns early for every trigger while tiles are muted
SilentTrigger_AnyMuted(from_tile, muted) == muted

\* if from_tile and self.auto_play_muted: return
SilentTrigger(from_tile, muted) == from_tile /\ muted

\* The environment threaded through the calls one handler makes:
\*   sc = score, recs = collision records, log = calls so far,
\*   won = points won per note since its pending record was opened,
\*   fin = tiles finished so far.
\* trigger_note_by_name(note_name, from_tile) at time current_ms
trigger_note_by_name(env, muted, current_ms, note_name, from_tile) ==
  IF SilentTrigger(from_tile, muted)
    THEN [env EXCEPT !.log = Append(@,
            [note_name |-> note_name, from_tile |-> from_tile,
             requested |-> FALSE, graded |-> FALSE, age |-> 0, points |-> 0])]
    ELSE
      LET collision_time == DictGet(env.recs, note_name)
          grade  == ScoreGate(from_tile, muted) /\ collision_time # None
          hit    == grade /\ InWindow(current_ms, collision_time)
          pts    == IF hit THEN ScorePoints ELSE 0
      IN  [sc   |-> IF hit THEN addScore(env.sc, ScorePoints) ELSE env.sc,
           recs |-> IF grade THEN ConsumeRecord(env.recs, note_name, hit)
                             ELSE env.recs,
           won  |-> [env.won EXCEPT ![note_name] = @ + pts],
           log  |-> Append(env.log,
                     [note_name |-> note_name, from_tile |-> from_tile,
                      requested |-> TRUE, graded |-> grade,
                      age |-> IF grade THEN current_ms - collision_time ELSE 0,
                      points |-> pts]),
           fin  |-> env.fin]

Env0 ==
  [sc |-> score, recs |-> last_tile_collision_time_for_note,
   won |-> gained, log |-> <<>>, fin |-> <<>>]

\* ---------------------------------------------------- touch-lift detector
\* 0-based landmark indices: index, middle, ring, pinky
FINGER_TIPS == <<8, 12, 16, 20>>
FINGER_PIPS == <<6, 10, 14, 18>>

\* a point strictly inside the rectangle of a key, dx pixels from its left edge
KeyPoint(nm, dx) == [x |-> KeyRect(nm).x + dx, y |-> KeyRect(nm).y]

\* a point on no key (above the keyboard)
RestPoint == [x |-> 0, y |-> 0]

\* fingertip positions fed to the detector: on c4 alone, on c4 and c40 at
\* once (the black key is drawn over the white one), on no key
TipPoints == {KeyPoint("c4", 0), KeyPoint("c40", 0), RestPoint}

\* A hand is its 21 landmarks.  Finger f has its tip at p and its second
\* joint d pixels below the tip (d > 0: tip above the joint); the other
\* fingers are curled away from the keys (tip level with the joint).
MakeHand(f, p, d) ==
  [i \in 0..20 |->
     IF i = FINGER_TIPS[f] THEN p
     ELSE IF i = FINGER_PIPS[f] THEN [x |-> p.x, y |-> p.y + d]
     ELSE RestPoint]

HandPoses ==
  {MakeHand(1, p, 1) : p \in TipPoints}
    \cup {MakeHand(1, KeyPoint("c40", 0), 0), MakeHand(4, KeyPoint("c4", 0), 1)}

\* results.multi_hand_landmarks: up to max_num_hands hands
HandFrames ==
  UNION {[1..n -> HandPoses] : n \in 0..MaxNumHands}

\* if tip_y < pip_y
Extended(tip, pip) == tip.y < pip.y

\* the fingertips of a frame that pass the tip_y < pip_y test
ExtendedTips(hands) ==
  {hands[h][FINGER_TIPS[f]] :
     <<h, f>> \in {hf \in (1..Len(hands)) \X (1..Len(FINGER_TIPS)) :
                    Extended(hands[hf[1]][FINGER_TIPS[hf[2]]],
                             hands[hf[1]][FINGER_PIPS[hf[2]]])}}

\* variant in which a fingertip counts for the first key that contains it only
touched_now_FirstKeyOnly(hands) ==
  LET tips == ExtendedTips(hands)
  IN  {nm \in Notes :
         \E tip \in tips :
           /\ InRect(KeyRect(nm), tip.x, tip.y)
           /\ \A other \in Notes :
                InRect(KeyRect(other), tip.x, tip.y) =>
                  IndexOf(keys_info, nm) <= IndexOf(keys_info, other)}

\* the set touched_now built by the fingertip loops
touched_now(hands) ==
  LET tips == ExtendedTips(hands)
  IN  {nm \in Notes : \E tip \in tips : InRect(KeyRect(nm), tip.x, tip.y)}

\* one frame for every set of touched keys that HandFrames can produce
FrameInputs ==
  {CHOOSE hands \in HandFrames : touched_now(hands) = s :
     s \in {touched_now(hands) : hands \in HandFrames}}

\* touched_now of each of these frames
TouchedNow == [hands \in FrameInputs |-> touched_now(hands)]

\* level-triggered variant: a touched key fires on every frame
FiresNoteOn_Level(touched, held) == touched

\* edge-triggered both ways: a key also fires on the frame it is released
FiresNoteOn_BothEdges(touched, held) == touched # held

\* variant that fires while a key stays held instead of when it is entered
FiresNoteOn_WhileHeld(touched, held) == touched /\ held

\* the "touch-lift" test: does the loop body call trigger_note_by_name
\* for a key that is touched (or not) and was held (or not)
FiresNoteOn(touched, held) == touched /\ ~held

\* variant in which a key once held stays held when it is no longer touched
HeldAfter_Sticky(touched, held) == touched \/ held

\* variant in which touching a key that is held releases it
HeldAfter_Toggle(touched, held) == touched /\ ~held

\* is_held[nm] when the loop body is done with the key
HeldAfter(touched, held) ==
  IF touched
    THEN IF ~held THEN TRUE ELSE held
    ELSE IF held THEN FALSE ELSE held

\* the keys the "touch-lift" loop triggers, in keys_info order
NoteOns(held, touched) ==
  SelectSeq(keys_info, LAMBDA nm : FiresNoteOn(nm \in touched, held[nm]))

\* the calls trigger_note_by_name(nm) for the notes of a list, in order
RECURSIVE TriggerAll(_, _, _, _)
TriggerAll(env, muted, current_ms, notes) ==
  IF notes = <<>> THEN env
  ELSE TriggerAll(trigger_note_by_name(env, muted, current_ms, Head(notes), FALSE),
                  muted, current_ms, Tail(notes))

\* number of calls in log made for note nm
CallsFor(log, nm) == Cardinality({i \in 1..Len(log) : log[i].note_name = nm})

\* variant that handles a failed capture like a frame without hands: every
\* held key is released
update_camera_failed_Release ==
  /\ is_held' = [nm \in Notes |-> FALSE]
  /\ op' = [name |-> "update_camera", ret |-> FALSE,
            released |-> {nm \in Notes : is_held[nm]}]
  /\ calls' = <<>>
  /\ finished' = <<>>
  /\ UNCHANGED <<auto_play_muted, teach_text, score,
                 last_tile_collision_time_for_note, tiles, timers, now, plays,
                 frame_touched, run_note_ons, gained, spawned>>

\* ARPiano.update_camera with a frame whose capture failed (ret false)
update_camera_failed ==
  /\ op' = [name |-> "update_camera", ret |-> FALSE, released |-> {}]
  /\ calls' = <<>>
  /\ finished' = <<>>
  /\ UNCHANGED <<progVars, frame_touched, run_note_ons, gained, spawned>>

\* ARPiano.update_camera with a captured frame showing the given hands
update_camera(hands) ==
  LET touched == TouchedNow[hands]
      env == TriggerAll(Env0, auto_play_muted, now, NoteOns(is_held, touched))
  IN  /\ is_held' = [nm \in Notes |-> HeldAfter(nm \in touched, is_held[nm])]
      /\ score' = env.sc
      /\ last_tile_collision_time_for_note' = env.recs
      /\ gained' = env.won
      /\ calls' = env.log
      /\ finished' = <<>>
      /\ op' = [name |-> "update_camera", ret |-> TRUE,
                released |-> {nm \in Notes : is_held[nm] /\ nm \notin touched}]
      /\ frame_touched' = touched
      /\ run_note_ons' =
           [nm \in Notes |->
              IF nm \in touched
                THEN run_note_ons[nm] + CallsFor(env.log, nm)
                ELSE 0]
      /\ UNCHANGED <<auto_play_muted, teach_text, tiles, timers, now, plays,
                     spawned>>

\* ------------------------------------------------------------- key clicks
\* keys the user clicks (mouse or shortcut)
ClickNotes == {"c4", "g4"}

\* ARPiano.play_sound: the clicked button's note is triggered, user origin
play_sound(note_name) ==
  LET env == trigger_note_by_name(Env0, auto_play_muted, now, note_name, FALSE)
  IN  /\ score' = env.sc
      /\ last_tile_collision_time_for_note' = env.recs
      /\ gained' = env.won
      /\ calls' = env.log
      /\ finished' = <<>>
      /\ op' = [name |-> "play_sound", note_name |-> note_name]
      /\ UNCHANGED <<auto_play_muted, teach_text, is_held, tiles, timers, now,
                     plays, frame_touched, run_note_ons, spawned>>

\* ------------------------------------------------------------ teach toggle
\* the text toggleTeach puts on the button for a value of auto_play_muted
TeachText(muted) ==
  IF muted THEN "Teach You To Play: OFF" ELSE "Teach You To Play: ON"

\* variant that also forgets the pending collision records
toggleTeach_ForgetRecords ==
  /\ auto_play_muted' = ~auto_play_muted
  /\ teach_text' = TeachText(auto_play_muted')
  /\ last_tile_collision_time_for_note' = <<>>
  /\ op' = [name |-> "toggleTeach"]
  /\ calls' = <<>>
  /\ finished' = <<>>
  /\ UNCHANGED <<is_held, score, tiles, timers, now, plays, frame_touched,
                 run_note_ons, gained, spawned>>

\* ARPiano.toggleTeach
toggleTeach ==
  /\ auto_play_muted' = ~auto_play_muted
  /\ teach_text' = TeachText(auto_play_muted')
  /\ op' = [name |-> "toggleTeach"]
  /\ calls' = <<>>
  /\ finished' = <<>>
  /\ UNCHANGED <<is_held, score, last_tile_collision_time_for_note, tiles,
                 timers, now, plays, frame_touched, run_note_ons, gained, spawned>>

\* --------------------------------------------------------- tile scheduler
HappyBirthday ==
  <<<<"g4", 0>>,   <<"g4", 800>>, <<"a4", 800>>, <<"g4", 800>>, <<"c5", 800>>,
    <<"b4", 1000>>, <<"g4", 800>>, <<"g4", 800>>, <<"a4", 800>>, <<"g4", 800>>,
    <<"d5", 800>>, <<"c5", 1000>>, <<"g4", 800>>, <<"g4", 800>>, <<"g5", 800>>,
    <<"e5", 800>>, <<"c5", 800>>, <<"b4", 800>>, <<"a4", 1200>>, <<"f5", 800>>,
    <<"f5", 800>>, <<"e5", 800>>, <<"c5", 800>>, <<"d5", 800>>, <<"c5", 1000>>>>

Interstellar ==
  <<<<"c4", 0>>, <<"g4", 800>>, <<"g4", 800>>, <<"a4", 1000>>, <<"g4", 800>>,
    <<"f4", 800>>, <<"e4", 1200>>, <<"e4", 800>>, <<"g4", 800>>, <<"g4", 1000>>>>

\* the items of musicBox
Selections == {"Happy Birthday (basic)", "Interstellar (basic)"}

\* the melody launched for a selection, cut to its first MelodyLen entries
MelodyFor(selection) ==
  IF selection = "Happy Birthday (basic)"
    THEN Prefix(HappyBirthday, MelodyLen)
    ELSE Prefix(Interstellar, MelodyLen)

\* variant that schedules every entry at its own delta, not the running sum
Onset_Delta(melody, i) == melody[i][2]

\* current_time after the first i entries: the running sum of the deltas
Onset(melody, i) == SeqSum([j \in 1..i |-> melody[j][2]])

\* the singleShot timers one spawn*Tiles call registers, in loop order
ScheduleMelody(melody, start) ==
  [i \in 1..Len(melody) |->
     [note_name |-> melody[i][1], due |-> start + Onset(melody, i)]]

\* variant in which a new launch drops the timers still pending
Register_Restart(pending, new) == new

\* QTimer.singleShot for each entry: the new timers are registered, the
\* pending ones are left alone
Register(pending, new) == pending \o new

\* ARPiano.onPlayMusicClicked with the combo box on the given selection
onPlayMusicClicked(selection) ==
  /\ plays' = plays + 1
  /\ timers' = Register(timers, ScheduleMelody(MelodyFor(selection), now))
  /\ op' = [name |-> "onPlayMusicClicked", selection |-> selection]
  /\ calls' = <<>>
  /\ finished' = <<>>
  /\ UNCHANGED <<auto_play_muted, teach_text, is_held, score,
                 last_tile_collision_time_for_note, tiles, now,
                 frame_touched, run_note_ons, gained, spawned>>

\* -------------------------------------------------- tile collision engine
\* FallingTile.__init__
NewTile(note_name, key_rect, fall_speed, x_offset) ==
  LET tile_side == (7 * key_rect.w) \div 10
  IN  [note_name   |-> note_name,
       key_rect    |-> key_rect,
       fall_speed  |-> fall_speed,
       x_offset    |-> x_offset,
       side        |-> tile_side,
       x           |-> key_rect.x + x_offset + (key_rect.w - tile_side) \div 2,
       y           |-> 0 - tile_side,
       is_finished |-> FALSE]

\* active_count in spawnTile
ActiveCount(ts, note_name) ==
  Cardinality({i \in 1..Len(ts) :
                 ts[i].note_name = note_name /\ ~ts[i].is_finished})

\* TileOverlay.spawnTile: the tile list after the call
spawnTile(ts, note_name, fall_speed) ==
  LET x_offset == ActiveCount(ts, note_name) * OffsetStep
  IN  IF note_name \notin Notes
        THEN ts
        ELSE Append(ts, NewTile(note_name, KeyRect(note_name),
                                fall_speed, x_offset))

\* the pending timer Qt fires next: the earliest due, the first registered
\* among equals
NextTimer ==
  CHOOSE i \in 1..Len(timers) :
    \A j \in 1..Len(timers) :
      timers[i].due < timers[j].due \/ (timers[i].due = timers[j].due /\ i <= j)

RemoveAt(s, i) == SubSeq(s, 1, i - 1) \o SubSeq(s, i + 1, Len(s))

\* a singleShot timer expires: its lambda calls spawnTile(n, fall_speed=4)
TimerFire ==
  /\ timers # <<>>
  /\ timers[NextTimer].due <= now
  /\ tiles' = spawnTile(tiles, timers[NextTimer].note_name, FallSpeed)
  /\ spawned' = spawned + (Len(tiles') - Len(tiles))
  /\ timers' = RemoveAt(timers, NextTimer)
  /\ op' = [name |-> "spawnTile", note_name |-> timers[NextTimer].note_name]
  /\ calls' = <<>>
  /\ finished' = <<>>
  /\ UNCHANGED <<auto_play_muted, teach_text, is_held, score,
                 last_tile_collision_time_for_note, now, plays,
                 frame_touched, run_note_ons, gained>>

\* variant that lets a tile whose bottom edge is exactly on the key top fall on
Collides_Strict(ny, height, key_rect) == ny + height > key_rect.y

\* tile_bottom >= key_top
Collides(ny, height, key_rect) == ny + height >= key_rect.y

\* variant that records the collision in both modes
CollisionEffect_AlwaysRecord(env, muted, current_ms, note_name) ==
  LET e == IF ~muted
             THEN trigger_note_by_name(env, muted, current_ms, note_name, TRUE)
             ELSE env
  IN  [e EXCEPT !.recs = DictSet(@, note_name, current_ms),
                !.won[note_name] = IF note_name \in DOMAIN env.recs THEN @ ELSE 0]

\* the effect of a collision on the environment: the tile sounds its note,
\* or (muted) the collision time is recorded for the note
CollisionEffect(env, muted, current_ms, note_name) ==
  IF ~muted
    THEN trigger_note_by_name(env, muted, current_ms, note_name, TRUE)
    ELSE [env EXCEPT !.recs = DictSet(@, note_name, current_ms),
                     !.won[note_name] =
                        IF note_name \in DOMAIN env.recs THEN @ ELSE 0]

\* variant in which a tile does not move
Fall_Hover(y, fall_speed) == y

\* ny = self.y() + self.fall_speed
Fall(y, fall_speed) == y + fall_speed

\* FallingTile.update_position; st = [env, tile]
update_position(st, muted, current_ms) ==
  IF st.tile.is_finished THEN st
  ELSE
    LET t  == st.tile
        ny == Fall(t.y, t.fall_speed)
    IN  IF Collides(ny, t.side, t.key_rect)
          THEN [env  |-> [CollisionEffect(st.env, muted, current_ms, t.note_name)
                            EXCEPT !.fin = Append(@,
                              [note_name |-> t.note_name, muted |-> muted,
                               bottom |-> ny + t.side,
                               prior |-> IF t.note_name \in DOMAIN st.env.recs
                                           THEN st.env.recs[t.note_name]
                                           ELSE -1])],
                tile |-> [t EXCEPT !.y = ny, !.is_finished = TRUE]]
          ELSE [env |-> st.env, tile |-> [t EXCEPT !.y = ny]]

\* variant that leaves finished tiles in the list
KeepTile_Always(kept, tile) == Append(kept, tile)

\* if t.is_finished: self.tiles.remove(t) -- the list with the tile just
\* updated left in or taken out
KeepTile(kept, tile) ==
  IF tile.is_finished THEN kept ELSE Append(kept, tile)

\* the loop of TileOverlay.update_tiles over the copy of the list, from
\* index i on; st = [env, kept] where kept is the list left so far
RECURSIVE UpdateLoop(_, _, _, _, _)
UpdateLoop(i, copy, st, muted, current_ms) ==
  IF i > Len(copy) THEN st
  ELSE
    LET r == update_position([env |-> st.env, tile |-> copy[i]], muted, current_ms)
    IN  UpdateLoop(i + 1, copy,
                   [env  |-> r.env,
                    kept |-> KeepTile(st.kept, r.tile)],
                   muted, current_ms)

\* TileOverlay.update_tiles (the 33 ms timer)
update_tiles ==
  LET st == UpdateLoop(1, tiles, [env |-> Env0, kept |-> <<>>],
                       auto_play_muted, now)
  IN  /\ tiles' = st.kept
      /\ score' = st.env.sc
      /\ last_tile_collision_time_for_note' = st.env.recs
      /\ gained' = st.env.won
      /\ calls' = st.env.log
      /\ finished' = st.env.fin
      /\ op' = [name |-> "update_tiles"]
      /\ UNCHANGED <<auto_play_muted, teach_text, is_held, timers, now, plays,
                     frame_touched, run_note_ons, spawned>>

\* ------------------------------------------------------------------ clock
\* wall-clock time passes between two handlers
ClockAdvance(d) ==
  /\ now + d <= MaxTime
  /\ now' = now + d
  /\ op' = [name |-> "clock"]
  /\ calls' = <<>>
  /\ finished' = <<>>
  /\ UNCHANGED <<auto_play_muted, teach_text, is_held, score,
                 last_tile_collision_time_for_note, tiles, timers, plays,
                 frame_touched, run_note_ons, gained, spawned>>

\* ---------------------------------------------------------- specification
\* the state after ARPiano.__init__
Init ==
  /\ auto_play_muted = FALSE
  /\ teach_text = "Teach You To Play: ON"
  /\ is_held = [nm \in Notes |-> FALSE]
  /\ score = 0
  /\ last_tile_collision_time_for_note = <<>>
  /\ tiles = <<>>
  /\ timers = <<>>
  /\ now = 0
  /\ plays = 0
  /\ op = [name |-> "__init__"]
  /\ calls = <<>>
  /\ finished = <<>>
  /\ frame_touched = {}
  /\ run_note_ons = [nm \in Notes |-> 0]
  /\ gained = [nm \in Notes |-> 0]
  /\ spawned = 0

Next ==
  \/ update_camera_failed
  \/ \E hands \in FrameInputs : update_camera(hands)
  \/ \E nm \in ClickNotes : play_sound(nm)
  \/ toggleTeach
  \/ \E selection \in Selections :
       plays < MaxPlays /\ onPlayMusicClicked(selection)
  \/ TimerFire
  \/ update_tiles
  \/ \E d \in ClockSteps : ClockAdvance(d)

Spec == Init /\ [][Next]_vars

\* The tile scheduler and the collision engine on their own (no camera
\* frames), with room for Play to be clicked again while tiles of the first
\* melody are pending or falling.
NextTiles ==
  \/ \E nm \in ClickNotes : play_sound(nm)
  \/ toggleTeach
  \/ \E selection \in Selections :
       plays < MaxReplays /\ onPlayMusicClicked(selection)
  \/ TimerFire
  \/ update_tiles
  \/ \E d \in ClockSteps : ClockAdvance(d)

SpecTiles == Init /\ [][NextTiles]_vars

\* All handlers again, with the clock sampled in steps of one melody delay
\* only; update_timer (33 ms) keeps calling update_tiles for as long as the
\* program runs.
NextFalling ==
  \/ update_camera_failed
  \/ \E hands \in FrameInputs : update_camera(hands)
  \/ \E nm \in ClickNotes : play_sound(nm)
  \/ toggleTeach
  \/ \E selection \in Selections :
       plays < MaxPlays /\ onPlayMusicClicked(selection)
  \/ TimerFire
  \/ update_tiles
  \/ ClockAdvance(800)

FairSpecFalling ==
  /\ Init /\ [][NextFalling]_vars
  /\ WF_vars(update_tiles)

\* The Qt event loop runs a singleShot callback once its time has come, and
\* wall-clock time keeps passing.
FairSpecTiles ==
  /\ SpecTiles
  /\ WF_vars(TimerFire)
  /\ WF_vars(\E d \in ClockSteps : ClockAdvance(d))

\* ================================================================ claims
\* the step just taken was a camera tick whose frame was processed
CameraFrameDone == op.name = "update_camera" /\ op.ret

\* C1: over the processed camera frames, update_camera calls
\* trigger_note_by_name for a key exactly on the first frame of each maximal
\* run of frames that have the key in touched_now, and never again in that
\* run: one note-on per run, whatever its length.
C1_OneNoteOnPerRun ==
  [][ CameraFrameDone' =>
        \A nm \in Notes :
          /\ CallsFor(calls', nm) =
               IF nm \in frame_touched' /\ nm \notin frame_touched THEN 1 ELSE 0
          /\ nm \in frame_touched' => run_note_ons'[nm] = 1
          /\ \A i \in 1..Len(calls') : ~calls'[i].from_tile ]_vars

\* a later frame of a run: c4 is touched, was already held, fires nothing
C1_Witness ==
  /\ CameraFrameDone
  /\ "c4" \in frame_touched
  /\ CallsFor(calls, "c4") = 0
  /\ run_note_ons["c4"] = 1
  /\ "c40" \in frame_touched
  /\ CallsFor(calls, "c40") = 1

\* C2: a frame in which a held key is released makes no call of
\* trigger_note_by_name for that key, leaves the key's collision record and
\* the points won on it as they were, and a frame that only releases keys
\* changes neither Score nor any record.
C2_ReleaseIsSilent ==
  [][ CameraFrameDone' =>
        /\ \A nm \in Notes :
             (is_held[nm] /\ ~is_held'[nm]) =>
               /\ CallsFor(calls', nm) = 0
               /\ gained'[nm] = gained[nm]
               /\ (nm \in DOMAIN last_tile_collision_time_for_note')
                    = (nm \in DOMAIN last_tile_collision_time_for_note)
               /\ nm \in DOMAIN last_tile_collision_time_for_note =>
                    last_tile_collision_time_for_note'[nm]
                      = last_tile_collision_time_for_note[nm]
        /\ (\A nm \in Notes : is_held'[nm] => is_held[nm]) =>
             /\ calls' = <<>>
             /\ score' = score
             /\ last_tile_collision_time_for_note'
                  = last_tile_collision_time_for_note ]_vars

\* c4 was released in teach mode while a collision record for c4 was pending
C2_Witness ==
  /\ CameraFrameDone
  /\ "c4" \in op.released
  /\ ~is_held["c4"]
  /\ auto_play_muted
  /\ "c4" \in DOMAIN last_tile_collision_time_for_note
  /\ calls = <<>>

\* the collision records, for short
Recs == last_tile_collision_time_for_note

\* the notes the step just taken triggered with user origin: the clicked
\* key, or the keys a processed frame shows touched that the frame before
\* did not
UserTriggers ==
  IF op'.name = "play_sound" THEN {op'.note_name}
  ELSE IF CameraFrameDone' THEN frame_touched' \ frame_touched
  ELSE {}

RECURSIVE SumOver(_, _)
SumOver(f, S) ==
  IF S = {} THEN 0
  ELSE LET x == CHOOSE y \in S : TRUE IN f[x] + SumOver(f, S \ {x})

\* C3: the points won on a note since its pending collision record was
\* opened never exceed 10, however many user triggers follow, and once they
\* are won the record is gone.
C3_CollisionScoresOnce ==
  \A nm \in Notes :
    /\ gained[nm] \in {0, 10}
    /\ gained[nm] = 10 => nm \notin DOMAIN Recs

\* g4 is clicked again in teach mode after its collision was scored: no points
C3_Witness ==
  /\ op.name = "play_sound" /\ op.note_name = "g4"
  /\ auto_play_muted
  /\ gained["g4"] = 10
  /\ score = 10
  /\ calls[1].points = 0

\* C4: in teach mode a user trigger of a note with a pending record made at
\* time r adds exactly 10 to Score when now - r <= 300 and nothing when
\* now - r >= 301; Score moves by the sum over the triggered notes.
C4_WindowBoundary ==
  [][ UserTriggers # {} =>
        /\ \A nm \in UserTriggers :
             (auto_play_muted /\ nm \in DOMAIN Recs) =>
               /\ now - Recs[nm] <= 300 => gained'[nm] = gained[nm] + 10
               /\ now - Recs[nm] >= 301 => gained'[nm] = gained[nm]
        /\ \A nm \in Notes \ UserTriggers : gained'[nm] = gained[nm]
        /\ score' - score
             = SumOver(gained', UserTriggers) - SumOver(gained, UserTriggers)
     ]_vars

\* a user trigger exactly 300 ms after the collision scored 10
C4_Witness ==
  /\ op.name \in {"play_sound", "update_camera"}
  /\ \E i \in 1..Len(calls) :
       calls[i].graded /\ calls[i].age = 300 /\ calls[i].points = 10
  /\ score >= 10

\* C5: in teach mode a user trigger of a note with a pending record deletes
\* the record whether or not it scores; a user trigger of a note without a
\* record wins nothing on it, and no record of another note is touched.
C5_RecordAlwaysConsumed ==
  [][ UserTriggers # {} =>
        /\ \A nm \in UserTriggers :
             /\ (auto_play_muted /\ nm \in DOMAIN Recs) =>
                  nm \notin DOMAIN Recs'
             /\ nm \notin DOMAIN Recs =>
                  nm \notin DOMAIN Recs' /\ gained'[nm] = gained[nm]
        /\ \A nm \in Notes \ UserTriggers :
             /\ (nm \in DOMAIN Recs') = (nm \in DOMAIN Recs)
             /\ nm \in DOMAIN Recs => Recs'[nm] = Recs[nm]
        /\ (UserTriggers \cap DOMAIN Recs = {}) =>
             score' = score /\ Recs' = Recs
     ]_vars

\* a late user trigger (301 ms) scored nothing and the record is gone
C5_Witness ==
  /\ op.name \in {"play_sound", "update_camera"}
  /\ \E i \in 1..Len(calls) :
       /\ calls[i].graded /\ calls[i].age = 301 /\ calls[i].points = 0
       /\ calls[i].note_name \notin DOMAIN Recs
  /\ score = 0

\* the notes whose tiles finished in the step just taken
FinishedNotes == {finished'[i].note_name : i \in 1..Len(finished')}

\* C6: a collision in teach mode leaves the current time as the note's only
\* record, also when an unconsumed record of an earlier collision is there;
\* the overwrite opens no new budget: the points won on the note since the
\* first of the two collisions stay at most 10.
C6_LaterCollisionOverwrites ==
  [][ (op'.name = "update_tiles" /\ auto_play_muted) =>
        \A nm \in FinishedNotes :
          /\ nm \in DOMAIN Recs'
          /\ Recs'[nm] = now
          /\ nm \in DOMAIN Recs => gained'[nm] = gained[nm]
          /\ gained'[nm] <= 10
     ]_vars

\* a g4 tile collided while the record of an earlier g4 collision was pending
C6_Witness ==
  /\ op.name = "update_tiles"
  /\ \E i \in 1..Len(finished) :
       /\ finished[i].muted
       /\ finished[i].note_name = "g4"
       /\ finished[i].prior >= 0
       /\ finished[i].prior < now
  /\ Recs["g4"] = now

\* C7: while tiles sound their own notes (auto_play_muted = FALSE) no user
\* trigger, from a touch or from a key click, changes Score, consults a
\* collision record or deletes one.
C7_AutoPlayNeverGrades ==
  [][ (UserTriggers # {} /\ ~auto_play_muted) =>
        /\ score' = score
        /\ Recs' = Recs
        /\ gained' = gained
        /\ \A i \in 1..Len(calls') : ~calls'[i].graded /\ calls'[i].points = 0
     ]_vars

\* g4 was clicked in auto-play mode with an in-window record pending: the
\* record is still there and nothing was scored
C7_Witness ==
  /\ op.name = "play_sound" /\ op.note_name = "g4"
  /\ ~auto_play_muted
  /\ "g4" \in DOMAIN Recs
  /\ now - Recs["g4"] <= 300
  /\ score = 0

\* C8 as stated: a user trigger while tiles sound their own notes
\* (auto_play_muted = FALSE) is graded: a pending record within the window
\* awards 10 points and is consumed.
C8_Original_GradedInAutoPlay ==
  [][ \A nm \in UserTriggers :
        (~auto_play_muted /\ nm \in DOMAIN Recs /\ now - Recs[nm] <= 300) =>
          /\ score' >= score + 10
          /\ nm \notin DOMAIN Recs'
     ]_vars

\* C8 amended: a user trigger is graded exactly when tiles are muted
\* (auto_play_muted = TRUE): a pending record within the window then awards
\* 10 points and is consumed, while with tiles sounding their own notes the
\* same trigger wins nothing and leaves the record in place.
C8_GradedOnlyWhenMuted ==
  [][ \A nm \in UserTriggers :
        (nm \in DOMAIN Recs /\ now - Recs[nm] <= 300) =>
          IF auto_play_muted
            THEN /\ gained'[nm] = gained[nm] + 10
                 /\ score' >= score + 10
                 /\ nm \notin DOMAIN Recs'
            ELSE /\ gained'[nm] = gained[nm]
                 /\ score' = score
                 /\ nm \in DOMAIN Recs' /\ Recs'[nm] = Recs[nm]
     ]_vars

\* a touch of c4 in teach mode scored within the window
C8_Witness ==
  /\ CameraFrameDone
  /\ auto_play_muted
  /\ \E i \in 1..Len(calls) :
       /\ calls[i].note_name = "c4"
       /\ calls[i].graded /\ calls[i].points = 10
  /\ "c4" \notin DOMAIN Recs

\* C9: whenever a user trigger has just added 10 points, the teach button
\* reads "Teach You To Play: ON" and tiles are muted.
C9_ScoresOnlyWhileButtonOn ==
  (/\ op.name \in {"play_sound", "update_camera"}
   /\ \E i \in 1..Len(calls) : calls[i].points = 10)
    => (teach_text = "Teach You To Play: ON" /\ auto_play_muted)

\* C10: a tile tick either keeps a tile or finishes it; when tiles sound
\* their own notes every finished tile gets one tile-origin trigger that
\* requests audio and effect and no record changes; when tiles are muted
\* every finished tile's note gets the current time as its record, no
\* trigger is made and no other record changes; Score is unchanged.
C10_CollisionEffectByMode ==
  [][ op'.name = "update_tiles" =>
        /\ Len(tiles') + Len(finished') = Len(tiles)
        /\ score' = score
        /\ \A i \in 1..Len(finished') : finished'[i].muted = auto_play_muted
        /\ IF ~auto_play_muted
             THEN /\ Recs' = Recs
                  /\ Len(calls') = Len(finished')
                  /\ \A i \in 1..Len(calls') :
                       /\ calls'[i].note_name = finished'[i].note_name
                       /\ calls'[i].from_tile
                       /\ calls'[i].requested
             ELSE /\ calls' = <<>>
                  /\ DOMAIN Recs' = DOMAIN Recs \cup FinishedNotes
                  /\ \A nm \in DOMAIN Recs' :
                       Recs'[nm] = IF nm \in FinishedNotes THEN now ELSE Recs[nm]
     ]_vars

\* a g4 tile finished while tiles sound their notes and a g4 record from an
\* earlier, muted collision was pending: the note sounded, the record stayed
C10_Witness ==
  /\ op.name = "update_tiles"
  /\ ~auto_play_muted
  /\ Len(finished) = 1 /\ finished[1].note_name = "g4"
  /\ Len(calls) = 1 /\ calls[1].from_tile /\ calls[1].requested
  /\ "g4" \in DOMAIN Recs /\ Recs["g4"] < now

\* the bottom edge of a tile: y + height
TileBottom(t) == t.y + t.side

\* the tiles of the list that the next tile tick brings down to the key top
Landing == {i \in 1..Len(tiles) :
              TileBottom(tiles[i]) + tiles[i].fall_speed >= tiles[i].key_rect.y}

\* C11: a tile is falling until the first tile tick that brings its bottom
\* edge (y + height) to or below the top of its key, and not one tick
\* earlier: every tile still in the list is unfinished and above the key
\* top; a tile tick finishes exactly the tiles it brings down to the key top,
\* each with one collision effect, and moves the others down by fall_speed;
\* no other handler finishes a tile or makes a collision effect, and a
\* finished tile is gone from the list, so it never falls or collides again.
C11_FallingThenFinishedOnce ==
  /\ [](\A i \in 1..Len(tiles) :
          ~tiles[i].is_finished /\ TileBottom(tiles[i]) < tiles[i].key_rect.y)
  /\ [][ IF op'.name = "update_tiles"
           THEN /\ Len(finished') = Cardinality(Landing)
                /\ Len(tiles') = Len(tiles) - Cardinality(Landing)
                /\ \A i \in 1..Len(finished') :
                     finished'[i].bottom >= KeyRect(finished'[i].note_name).y
                /\ \A i \in 1..Len(tiles) :
                     i \notin Landing =>
                       \E j \in 1..Len(tiles') :
                         tiles'[j] = [tiles[i] EXCEPT !.y = @ + tiles[i].fall_speed]
                /\ IF auto_play_muted
                     THEN calls' = <<>>
                     ELSE Len(calls') = Cardinality(Landing)
           ELSE /\ finished' = <<>>
                /\ \A i \in 1..Len(calls') : ~calls'[i].from_tile
                /\ Len(tiles') >= Len(tiles)
                /\ SubSeq(tiles', 1, Len(tiles)) = tiles
     ]_vars

\* a tile tick finished a tile whose bottom edge came exactly onto the key
\* top, one tick after it was still 4 px above, and kept a younger tile
C11_Witness ==
  /\ op.name = "update_tiles"
  /\ Len(finished) = 1
  /\ finished[1].bottom = KeyRect(finished[1].note_name).y
  /\ Len(tiles) = 1
  /\ TileBottom(tiles[1]) = FallSpeed

\* launch times tried for the two melodies in full
LaunchTimes == {0, 300, 1101}

\* the timers a launch of melody at time start registers obey the spec's
\* recurrence and are strictly increasing
OnsetsByRecurrence(melody, start) ==
  LET s == ScheduleMelody(melody, start)
  IN  /\ Len(s) = Len(melody)
      /\ s[1].due = start + melody[1][2]
      /\ \A i \in 1..Len(s) : s[i].note_name = melody[i][1]
      /\ \A i \in 2..Len(s) :
           /\ s[i].due = s[i - 1].due + melody[i][2]
           /\ s[i].due > s[i - 1].due

\* both melodies, all entries, at each launch time
OnsetsCumulative ==
  \A melody \in {HappyBirthday, Interstellar} :
    \A start \in LaunchTimes : OnsetsByRecurrence(melody, start)

\* C12: a melody launched at time T gets one spawn timer per entry, entry 0
\* due at T + delay[0] and every later entry due at the previous entry's
\* time plus its own delay, so the due times are strictly increasing; a
\* spawn fires once due and never before a pending spawn with an earlier due
\* time, so the entries of a melody are spawned in melody order, each
\* appending a tile of its note at the end of the list; neither tile ticks
\* nor camera ticks change what is pending.
C12_OnsetsCumulativeInOrder ==
  /\ []OnsetsCumulative
  /\ [][ /\ op'.name = "onPlayMusicClicked" =>
              /\ timers' = timers \o ScheduleMelody(MelodyFor(op'.selection), now)
              /\ OnsetsByRecurrence(MelodyFor(op'.selection), now)
         /\ op'.name = "spawnTile" =>
              \E i \in 1..Len(timers) :
                /\ timers[i].due <= now
                /\ \A j \in 1..Len(timers) :
                     \/ timers[i].due < timers[j].due
                     \/ timers[i].due = timers[j].due /\ i <= j
                /\ op'.note_name = timers[i].note_name
                /\ timers' = RemoveAt(timers, i)
                /\ Len(tiles') = Len(tiles) + 1
                /\ SubSeq(tiles', 1, Len(tiles)) = tiles
                /\ tiles'[Len(tiles')].note_name = op'.note_name
         /\ op'.name \in {"update_tiles", "update_camera"} => timers' = timers
     ]_vars

\* the second entry of Interstellar was spawned after the first, 800 ms or
\* more after the launch, and both tiles are in the list in melody order
C12_Witness ==
  /\ op.name = "spawnTile" /\ op.note_name = "g4"
  /\ timers = <<>>
  /\ plays = 1
  /\ now >= 800
  /\ Len(tiles) = 2
  /\ tiles[1].note_name = "c4" /\ tiles[2].note_name = "g4"

\* the clock is sure to pass this time: short of it a step of 300 ms still
\* fits below MaxTime
ClockSure == MaxTime - 300

\* the pending spawns whose time comes while the clock still runs
PendingDue == {i \in 1..Len(timers) : timers[i].due <= ClockSure}

\* C13: a launch adds its spawns to the pending ones and changes none of
\* them; a pending spawn goes away only by firing, which creates exactly one
\* tile; toggles, user triggers and tile ticks leave the pending spawns
\* alone; so the tiles created plus the spawns pending always equal the sum
\* of the lengths of the melodies launched, and every pending spawn whose
\* time comes does fire.
C13_SpawnsFireAndForget ==
  /\ [](spawned + Len(timers) = plays * MelodyLen)
  /\ [][ /\ op'.name = "onPlayMusicClicked" =>
              /\ Len(MelodyFor(op'.selection)) = MelodyLen
              /\ Len(timers') = Len(timers) + MelodyLen
              /\ SubSeq(timers', 1, Len(timers)) = timers
              /\ spawned' = spawned /\ tiles' = tiles
         /\ op'.name = "spawnTile" =>
              /\ Len(timers') = Len(timers) - 1
              /\ spawned' = spawned + 1
              /\ Len(tiles') = Len(tiles) + 1
              /\ \E i \in 1..Len(timers) :
                   /\ timers[i].due <= now
                   /\ timers[i].note_name = tiles'[Len(tiles')].note_name
                   /\ timers' = RemoveAt(timers, i)
         /\ op'.name \notin {"onPlayMusicClicked", "spawnTile"} =>
              timers' = timers /\ spawned' = spawned
     ]_vars
  /\ (PendingDue # {}) ~> (PendingDue = {})

\* Play was clicked twice, the second time while spawns of the first melody
\* were pending (the clock ends too early for two launches in a row), the
\* teach button was toggled in between, and all four tiles were created
C13_Witness ==
  /\ plays = 2
  /\ spawned = 2 * MelodyLen
  /\ timers = <<>>
  /\ auto_play_muted
  /\ op.name = "spawnTile"

\* the step just taken was a camera tick whose capture failed
CameraFrameFailed == op.name = "update_camera" /\ ~op.ret

\* C14: a camera tick whose capture fails changes no is_held entry (nor
\* anything else of the program) and calls trigger_note_by_name for no key;
\* on a processed frame that comes right after it, a key that was held
\* before the failure and is touched in that frame does not fire.
C14_FailedFrameIsNoOp ==
  [][ /\ CameraFrameFailed' =>
           /\ is_held' = is_held
           /\ calls' = <<>>
           /\ progVars' = progVars
      /\ (CameraFrameFailed /\ CameraFrameDone') =>
           \A nm \in Notes :
             (is_held[nm] /\ nm \in frame_touched') =>
               /\ CallsFor(calls', nm) = 0
               /\ is_held'[nm]
               /\ run_note_ons'[nm] = 1
    ]_vars

\* a capture failed while c4 was held: c4 is still held and nothing fired
C14_Witness ==
  /\ CameraFrameFailed
  /\ is_held["c4"]
  /\ ~is_held["c40"]
  /\ calls = <<>>

\* C15 as stated: after a camera tick whose capture failed no key is held,
\* as after a processed frame without hands.
C15_Original_FailureReleasesKeys ==
  [][ CameraFrameFailed' => \A nm \in Notes : ~is_held'[nm] ]_vars

\* C15 amended: a capture failure is not a frame with nothing touched.  A
\* processed frame without hands releases every key, so that a key touched
\* again on the next processed frame fires a new note-on; a failed capture
\* keeps every held key held, so that on the next processed frame exactly
\* the touched keys that were not held before the failure fire.
C15_FailureKeepsKeysHeld ==
  [][ /\ (CameraFrameDone' /\ frame_touched' = {}) =>
           /\ \A nm \in Notes : ~is_held'[nm]
           /\ calls' = <<>>
      /\ (CameraFrameDone /\ frame_touched = {} /\ CameraFrameDone') =>
           \A nm \in frame_touched' : CallsFor(calls', nm) = 1
      /\ CameraFrameFailed' =>
           \A nm \in Notes : is_held'[nm] = (nm \in frame_touched')
      /\ (CameraFrameFailed /\ CameraFrameDone') =>
           \A nm \in Notes :
             CallsFor(calls', nm) =
               IF nm \in frame_touched' /\ ~is_held[nm] THEN 1 ELSE 0
    ]_vars

\* a capture failed while c4 and c40 were both held, and both are still held
C15_Witness ==
  /\ CameraFrameFailed
  /\ is_held["c4"] /\ is_held["c40"]
  /\ frame_touched = {"c4", "c40"}

\* the points the calls of a log report, added up
RECURSIVE PointsOf(_)
PointsOf(log) ==
  IF log = <<>> THEN 0 ELSE Head(log).points + PointsOf(Tail(log))

\* the notes a user trigger of the coming step finds with a record pending
\* in teach mode and not older than the window
ScoringTriggers ==
  {nm \in UserTriggers :
     auto_play_muted /\ nm \in DOMAIN Recs /\ now - Recs[nm] <= 300}

\* C16: Score is 0 after __init__ and never negative; no step lowers it; a
\* step changes it only through user-origin triggers made in teach mode on
\* notes with a pending record no older than 300 ms, by exactly 10 for each
\* such trigger; tile ticks (with their tile-origin triggers), spawns,
\* launches, mode toggles, clock steps and camera ticks without a note-on
\* leave it unchanged.
C16_ScoreGrowsByTens ==
  /\ [](score >= 0 /\ (op.name = "__init__" => score = 0))
  /\ [][ /\ score' >= score
         /\ score' - score = ScorePoints * Cardinality(ScoringTriggers)
         /\ score' - score = PointsOf(calls')
         /\ \A i \in 1..Len(calls') :
              /\ calls'[i].points \in {0, 10}
              /\ calls'[i].points = 10 =>
                   /\ ~calls'[i].from_tile
                   /\ calls'[i].graded
                   /\ calls'[i].age <= 300
                   /\ auto_play_muted
         /\ op'.name \in {"update_tiles", "spawnTile", "toggleTeach",
                          "onPlayMusicClicked", "clock"} => score' = score
         /\ (op'.name = "update_camera" /\ calls' = <<>>) => score' = score
     ]_vars

\* the second g4 tile of Happy Birthday was hit in time as well: 10 more
\* points on top of the 10 for the first
C16_Witness ==
  /\ op.name = "play_sound" /\ op.note_name = "g4"
  /\ auto_play_muted
  /\ calls[1].points = 10
  /\ score = 20

\* the log entry of one call trigger_note_by_name(nm, from_tile) made now
\* with the flag auto_play_muted at the given value
CallEntry(muted, nm, from_tile) ==
  trigger_note_by_name(Env0, muted, now, nm, from_tile).log[1]

\* C17: every call of trigger_note_by_name with user origin (a key click or
\* a touch) reaches the audio playback and the flying-note effect of its
\* note, with tiles muted or not, and whether it found no record, scored or
\* came too late; of the four combinations of origin and mode only the
\* tile-origin call with tiles muted reaches neither, and it changes nothing.
C17_UserTriggerAlwaysSounds ==
  /\ [](\A muted \in BOOLEAN, from_tile \in BOOLEAN, nm \in ClickNotes :
          /\ CallEntry(muted, nm, from_tile).requested = ~(from_tile /\ muted)
          /\ (from_tile /\ muted) =>
               LET e == trigger_note_by_name(Env0, muted, now, nm, from_tile)
               IN  e.sc = score /\ e.recs = Recs /\ e.won = gained)
  /\ [][ /\ \A nm \in UserTriggers :
              \E i \in 1..Len(calls') :
                /\ calls'[i].note_name = nm
                /\ ~calls'[i].from_tile
                /\ calls'[i].requested
         /\ \A i \in 1..Len(calls') :
              /\ calls'[i].requested
              /\ calls'[i].from_tile => ~auto_play_muted
     ]_vars

\* g4 was clicked in teach mode 800 ms after its tile collided: no points,
\* the record is consumed, the note sounds all the same
C17_Witness ==
  /\ op.name = "play_sound" /\ op.note_name = "g4"
  /\ auto_play_muted
  /\ calls[1].graded /\ calls[1].age = 800 /\ calls[1].points = 0
  /\ calls[1].requested

\* a frame in which no hand is detected is one of the frames fed to the
\* detector, and its touched_now is empty
NoHandsTouchNothing ==
  /\ <<>> \in HandFrames
  /\ touched_now(<<>>) = {}
  /\ \E hands \in FrameInputs : TouchedNow[hands] = {}

\* C18: is_held starts all false, and once a camera frame has been processed
\* is_held[nm] is true exactly for the keys in that frame's touched_now,
\* until the next processed frame; a frame without hands has an empty
\* touched_now, so after it no key is held and no call of
\* trigger_note_by_name was made.
C18_HeldMirrorsTouched ==
  /\ []NoHandsTouchNothing
  /\ [](\A nm \in Notes : is_held[nm] = (nm \in frame_touched))
  /\ [][ CameraFrameDone' =>
           /\ \A nm \in Notes : is_held'[nm] = (nm \in frame_touched')
           /\ op'.released = {nm \in Notes : is_held[nm]} \ frame_touched'
           /\ frame_touched' = {} =>
                /\ \A nm \in Notes : ~is_held'[nm]
                /\ calls' = <<>>
     ]_vars

\* a frame without touched keys was processed while c4 and c40 were held:
\* both were released, nothing fired
C18_Witness ==
  /\ CameraFrameDone
  /\ frame_touched = {}
  /\ op.released = {"c4", "c40"}
  /\ \A nm \in Notes : ~is_held[nm]
  /\ calls = <<>>

\* the tiles of the list that the next tile tick does not bring down to the
\* key top, in list order
StillFalling ==
  SelectSeq(tiles,
            LAMBDA t : TileBottom(t) + t.fall_speed < t.key_rect.y)

\* C19: after a tile tick the list holds exactly the tiles that did not
\* finish in it, each moved down by fall_speed, in the order they had
\* before, and none of them is finished; the tiles that finished were taken
\* out in that same tick; and update_position on a finished tile changes
\* neither the tile nor anything else.
C19_FinishedTilesLeaveAtOnce ==
  /\ [](\A i \in 1..Len(tiles) :
          /\ ~tiles[i].is_finished
          /\ LET st == [env  |-> Env0,
                        tile |-> [tiles[i] EXCEPT !.is_finished = TRUE]]
             IN  update_position(st, auto_play_muted, now) = st)
  /\ [][ op'.name = "update_tiles" =>
           /\ Len(tiles') = Len(StillFalling)
           /\ \A j \in 1..Len(tiles') :
                tiles'[j] = [StillFalling[j] EXCEPT !.y = @ + StillFalling[j].fall_speed]
           /\ Len(finished') = Len(tiles) - Len(tiles')
     ]_vars

\* a tile tick finished the oldest of three tiles and kept the two younger
\* ones, a c4 tile and a g4 tile, in their order
C19_Witness ==
  /\ op.name = "update_tiles"
  /\ Len(finished) = 1
  /\ Len(tiles) = 2
  /\ tiles[1].note_name = "c4" /\ tiles[2].note_name = "g4"
  /\ TileBottom(tiles[1]) = FallSpeed /\ TileBottom(tiles[2]) = FallSpeed

\* C20: any two unfinished tiles of the same note that are in the list
\* together have different horizontal offsets.
C20_SameNoteOffsetsDiffer ==
  \A i \in 1..Len(tiles), j \in 1..Len(tiles) :
    (/\ i # j
     /\ tiles[i].note_name = tiles[j].note_name
     /\ ~tiles[i].is_finished /\ ~tiles[j].is_finished)
      => tiles[i].x_offset # tiles[j].x_offset

\* one hand whose extended index fingertip is on the left edge of the black
\* key c40, which is drawn over the white key c4
OneTipOnOverlap == <<MakeHand(1, KeyPoint("c40", 0), 1)>>

\* that fingertip lies in both key rectangles, it is the hand's only
\* extended fingertip on a key, and both notes are in the frame's touched_now
OverlapTouchesBoth ==
  LET tip == KeyPoint("c40", 0)
  IN  /\ InRect(KeyRect("c4"), tip.x, tip.y)
      /\ InRect(KeyRect("c40"), tip.x, tip.y)
      /\ OneTipOnOverlap \in HandFrames
      /\ Cardinality({t \in ExtendedTips(OneTipOnOverlap) :
                        \E nm \in Notes : InRect(KeyRect(nm), t.x, t.y)}) = 1
      /\ touched_now(OneTipOnOverlap) = {"c4", "c40"}
      /\ \E hands \in FrameInputs : TouchedNow[hands] = {"c4", "c40"}

\* C21: a single extended fingertip inside two key rectangles puts both
\* notes into touched_now; a processed frame calls trigger_note_by_name once
\* for every touched key that was not held, all in the same frame and in
\* keys_info order, the white keys before the black keys.
C21_OverlapFiresBoth ==
  /\ []OverlapTouchesBoth
  /\ [][ CameraFrameDone' =>
           /\ \A nm \in frame_touched' :
                ~is_held[nm] => CallsFor(calls', nm) = 1
           /\ \A i \in 1..Len(calls'), j \in 1..Len(calls') :
                i < j => IndexOf(keys_info, calls'[i].note_name)
                           < IndexOf(keys_info, calls'[j].note_name)
           /\ \A i \in 1..Len(calls'), j \in 1..Len(calls') :
                (/\ calls'[i].note_name \in Range(black_keys)
                 /\ calls'[j].note_name \in Range(white_keys)) => j < i
     ]_vars

\* a frame touched c4 and c40 together while neither was held: two note-ons
\* in that frame, c4 first
C21_Witness ==
  /\ CameraFrameDone
  /\ frame_touched = {"c4", "c40"}
  /\ op.released = {}
  /\ Len(calls) = 2
  /\ calls[1].note_name = "c4" /\ calls[2].note_name = "c40"

\* C22: a collision record is never ahead of the clock; a user trigger of a
\* note whose tile has not collided yet (no record pending), be it one tile
\* tick before the collision, wins nothing, leaves no record behind and does
\* not touch the falling tile, and the tile's later collision in teach mode
\* writes its record all the same; every 10 points come from a trigger made
\* at or after the collision time and at most 300 ms after it.
C22_WindowOneSided ==
  /\ [](\A nm \in DOMAIN Recs : Recs[nm] <= now)
  /\ [][ /\ \A nm \in UserTriggers :
              nm \notin DOMAIN Recs =>
                /\ gained'[nm] = gained[nm]
                /\ nm \notin DOMAIN Recs'
                /\ score' - score
                     = SumOver(gained', UserTriggers \ {nm})
                         - SumOver(gained, UserTriggers \ {nm})
                /\ tiles' = tiles
         /\ \A i \in 1..Len(calls') :
              calls'[i].points = 10 =>
                /\ calls'[i].note_name \in DOMAIN Recs
                /\ Recs[calls'[i].note_name] <= now
                /\ now <= Recs[calls'[i].note_name] + 300
                /\ calls'[i].age = now - Recs[calls'[i].note_name]
         /\ (op'.name = "update_tiles" /\ auto_play_muted) =>
              \A i \in Landing :
                /\ tiles[i].note_name \in DOMAIN Recs'
                /\ Recs'[tiles[i].note_name] = now
     ]_vars

\* g4 was clicked in teach mode while its tile was one tile tick away from
\* the key and no g4 record was pending: nothing graded, nothing scored
C22_Witness ==
  /\ op.name = "play_sound" /\ op.note_name = "g4"
  /\ auto_play_muted
  /\ "g4" \notin DOMAIN Recs
  /\ \E i \in 1..Len(tiles) :
       /\ tiles[i].note_name = "g4"
       /\ TileBottom(tiles[i]) + tiles[i].fall_speed >= tiles[i].key_rect.y
  /\ ~calls[1].graded /\ calls[1].points = 0
  /\ score = 0

\* C23: a processed frame in which a key that was held is still touched makes
\* no call for that key, wins nothing on it and leaves its collision record,
\* pending or not, exactly as it was, however old the record is; a frame in
\* which every touched key was already held changes neither Score nor any
\* record; and a pending record goes away only through a user trigger of its
\* note: a key click, or a touch of the key after it was lifted.
C23_HeldKeyEarnsNothing ==
  [][ /\ CameraFrameDone' =>
           /\ \A nm \in Notes :
                (is_held[nm] /\ nm \in frame_touched') =>
                  /\ CallsFor(calls', nm) = 0
                  /\ gained'[nm] = gained[nm]
                  /\ (nm \in DOMAIN Recs') = (nm \in DOMAIN Recs)
                  /\ nm \in DOMAIN Recs => Recs'[nm] = Recs[nm]
           /\ (\A nm \in frame_touched' : is_held[nm]) =>
                /\ calls' = <<>>
                /\ score' = score
                /\ Recs' = Recs
      /\ \A nm \in DOMAIN Recs :
           nm \notin DOMAIN Recs' =>
             /\ nm \in UserTriggers
             /\ op'.name = "update_camera" => ~is_held[nm]
    ]_vars

\* c4 is still held in teach mode, more than 300 ms after its tile collided:
\* the frame fired nothing for it, no point was won, the record is pending
C23_Witness ==
  /\ CameraFrameDone
  /\ auto_play_muted
  /\ "c4" \in frame_touched
  /\ run_note_ons["c4"] = 1
  /\ CallsFor(calls, "c4") = 0
  /\ "c4" \in DOMAIN Recs
  /\ now - Recs["c4"] > 300
  /\ score = 0

\* how far a tile's bottom edge is above the top of its key
Height(t) == t.key_rect.y - TileBottom(t)

\* C24: every tile falls at a positive speed and a tile tick brings every
\* tile it keeps fall_speed closer to its key, so that a tile is gone from
\* the list after finitely many tile ticks; as the tile tick keeps firing,
\* whenever tiles are in the list the list is empty again later, whatever
\* camera ticks, key clicks, toggles and launches come in between.
C24_TilesAlwaysLand ==
  /\ [](\A i \in 1..Len(tiles) :
          tiles[i].fall_speed > 0 /\ Height(tiles[i]) > 0)
  /\ [][ op'.name = "update_tiles" =>
           /\ Len(tiles') <= Len(tiles)
           /\ \A j \in 1..Len(tiles') :
                \E i \in 1..Len(tiles) :
                  /\ tiles'[j].note_name = tiles[i].note_name
                  /\ Height(tiles'[j]) = Height(tiles[i]) - tiles[i].fall_speed
                  /\ Height(tiles'[j]) < Height(tiles[i])
     ]_vars
  /\ (tiles # <<>>) ~> (tiles = <<>>)

\* every scheduled tile was spawned and the tile tick has just taken the
\* last of them out of the list, with c4 held by a fingertip meanwhile
C24_Witness ==
  /\ op.name = "update_tiles"
  /\ plays = 1 /\ timers = <<>>
  /\ spawned = MelodyLen
  /\ Len(finished) >= 1
  /\ tiles = <<>>
  /\ is_held["c4"]

\* C25: toggleTeach negates auto_play_muted, sets the button text that goes
\* with the new value and changes nothing else: tiles, pending spawns,
\* collision records, Score and is_held stay as they are; a second toggle
\* right after the first brings back the text and the flag; no other handler
\* changes the flag or the text; a tile tick treats every tile it finishes
\* by the flag's value in that tick: muted, it records and triggers nothing,
\* otherwise it triggers and records nothing.
C25_ToggleFlipsOnlyTheFlag ==
  /\ [](auto_play_muted \in BOOLEAN)
  /\ [][ /\ op'.name = "toggleTeach" =>
              /\ auto_play_muted' = ~auto_play_muted
              /\ teach_text' = IF auto_play_muted'
                                 THEN "Teach You To Play: OFF"
                                 ELSE "Teach You To Play: ON"
              /\ tiles' = tiles
              /\ timers' = timers
              /\ Recs' = Recs
              /\ score' = score
              /\ is_held' = is_held
              /\ now' = now /\ plays' = plays
         /\ (op.name = "toggleTeach" /\ op'.name = "toggleTeach") =>
              /\ teach_text' # teach_text
              /\ auto_play_muted' # auto_play_muted
              /\ auto_play_muted' = (teach_text = "Teach You To Play: ON")
         /\ op'.name # "toggleTeach" =>
              /\ auto_play_muted' = auto_play_muted
              /\ teach_text' = teach_text
         /\ op'.name = "update_tiles" =>
              /\ \A i \in 1..Len(finished') : finished'[i].muted = auto_play_muted
              /\ IF auto_play_muted
                   THEN /\ calls' = <<>>
                        /\ \A i \in Landing : tiles[i].note_name \in DOMAIN Recs'
                   ELSE /\ Len(calls') = Cardinality(Landing)
                        /\ Recs' = Recs
     ]_vars

\* the teach button was toggled back while a c4 record written under the
\* muted flag was pending, a g4 tile was falling and c4 was held: the record,
\* the tile and the held key are all still there
C25_Witness ==
  /\ op.name = "toggleTeach"
  /\ ~auto_play_muted
  /\ teach_text = "Teach You To Play: ON"
  /\ "c4" \in DOMAIN Recs
  /\ Len(tiles) = 1 /\ tiles[1].note_name = "g4"
  /\ TileBottom(tiles[1]) = FallSpeed
  /\ is_held["c4"]

====
